---- MODULE Spec2Model ----
(***************************************************************************)
(* A model of the jrpc2 server dispatch core (package jrpc2, type Server): *)
(* the reader goroutine, the scheduler goroutine, the per-batch goroutines *)
(* and their handler goroutines, the mutex s.mu, the semaphore s.sem and   *)
(* the connection they read, write and close.                              *)
(*                                                                         *)
(* One Server value and one connection lifecycle are modelled: NewServer,  *)
(* one successful Start, then any interleaving of peer input, Stop calls,  *)
(* handler steps and Wait.                                                 *)
(*                                                                         *)
(* Beside the server stand three smaller machines on variables of their    *)
(* own: chanutil.Framing as jcall's newClient calls it, jcall's issueCalls *)
(* and issueSequential, and the LSP framing's Send and Recv on a stream of *)
(* bytes.                                                                  *)
(***************************************************************************)
EXTENDS Integers, Sequences, FiniteSets, TLC

\* ------------------------------------------------------------------ bounds
\* Frames the peer supplies to the reader in one lifecycle.
MaxFrames == 2
\* Frames the peer supplies while dispatch alone is explored.
MaxDispFrames == 1
\* Frames the peer supplies while progress is explored.
MaxLiveFrames == 2
\* Requests in one inbound batch.
MaxBatchLen == 2
\* Largest argument given to the Concurrency option.
MaxConc == 2

\* Longest name spelled from NameChars that is given to the -f flag.
MaxNameLen == 3

\* Most messages sent on one LSP channel.
MaxMsgs == 2
\* Longest message spelled from MsgBytes.
MaxMsgLen == 2

\* Most <method> <params> pairs on a jcall command line.
MaxCalls == 2

\* ------------------------------------------------------- values on the wire
\* The version marker of the protocol.
Version == "2.0"
\* Version markers a request may carry: correct, absent, wrong.
Versions == {"2.0", "", "1.0"}
\* Request IDs as raw JSON text; "" is an absent ID (a notification).
IDs == {"", "1", "2"}
\* Method names: empty, one the assigner knows, one it does not.
Methods == {"", "add", "nope"}
\* The wire form of a request.
Requests == [v : Versions, id : IDs, m : Methods]
\* Inbound batches: 1..MaxBatchLen requests.
Batches == UNION {[1..n -> Requests] : n \in 1..MaxBatchLen}
\* The requests the peer sends while the whole lifecycle is explored: a call,
\* a notification, and a call with the same ID and a wrong version marker.
CoreRequests ==
    {[v |-> "2.0", id |-> "1", m |-> "add"],
     [v |-> "2.0", id |-> "", m |-> "add"],
     [v |-> "1.0", id |-> "1", m |-> "add"]}
CoreBatches == UNION {[1..n -> CoreRequests] : n \in 1..MaxBatchLen}

\* Error values.
NoErr == "nil"
ErrServerStopped == "ErrServerStopped"
\* What json.Decoder.Decode reports besides a decoded batch.
RecoverableErrs == {"UnmarshalTypeError"}
FatalErrs == {"io.EOF", "SyntaxError", "ReadError"}
\* The frames the reader answers itself: one Decode rejects with a recoverable
\* error, and one that decodes to an empty batch.
BadFrames == RecoverableErrs \cup {"empty"}
\* What a handler invocation does.
Outcomes == {"ok", "Error", "unmarshalable"}
\* The outcomes explored with the whole lifecycle.
CoreOutcomes == {"ok", "Error"}

\* ------------------------------------------------------------------- state
VARIABLES
    semCap,     \* capacity of s.sem
    allow1,     \* s.allow1
    closer,     \* s.closer: "nil" or "conn"
    err,        \* s.err
    inq,        \* s.inq: sequence of batches
    used,       \* s.used: set of IDs
    semHeld,    \* permits of s.sem currently held
    mu,         \* goroutines holding s.mu across steps: 0 the reader, b the batch b
    rdr,        \* reader goroutine: [pc, got, code]
    sched,      \* scheduler goroutine: "idle", "wait", "exited"
    bat,        \* the batch goroutines, in dequeue order
    out,        \* Write calls made on the connection, in order
    closeCount, \* Close calls made on the connection
    crashed,    \* the process died of an unrecovered panic
    nread,      \* frames the peer has supplied
    cause,      \* history: the first termination cause that occurred
    concOpt,    \* history: the Concurrency option given to NewServer
    waitRes,    \* what Wait returned, "pending" before it returns
    fname,      \* jcall: the value of the -f flag, as a sequence of characters
    fres,       \* jcall: what chanutil.Framing returned for it
    fcli,       \* jcall: how newClient ended: "none", "fatal", "client"
    jargs,      \* jcall: the arguments after the address: method, params, ...
    jbatch,     \* jcall: the -batch flag
    jnotify,    \* jcall: the -notify flag
    jpc,        \* jcall: position in issueCalls
    ji,         \* jcall: index of the spec issueSequential is at
    jwire,      \* jcall: the frames the client has transmitted, in order
    jrsps,      \* jcall: the responses collected for printResults
    lsend,      \* LSP channel: the messages given to Send, in order
    lwire,      \* LSP channel: the bytes written and not yet read
    lrcvd,      \* LSP channel: what the Recv calls returned, in order
    lpc         \* LSP channel: "none", "send" or "recv"

\* The state of the server, which no step of jcall or chanutil touches.
srvVars == <<semCap, allow1, closer, err, inq, used, semHeld, mu, rdr, sched, bat,
             out, closeCount, crashed, nread, cause, concOpt, waitRes>>

\* The state of the jcall command and of the chanutil package, which no step of
\* the server touches.
cliVars == <<fname, fres, fcli, jargs, jbatch, jnotify, jpc, ji, jwire, jrsps,
             lsend, lwire, lrcvd, lpc>>

\* The part of it that newClient works on, the part issueCalls works on, and
\* the LSP channel.
framingVars == <<fname, fres, fcli>>
callVars == <<jargs, jbatch, jnotify, jpc, ji, jwire, jrsps>>
lspVars == <<lsend, lwire, lrcvd, lpc>>

vars == <<semCap, allow1, closer, err, inq, used, semHeld, mu, rdr, sched, bat,
          out, closeCount, crashed, nread, cause, concOpt, waitRes, fname, fres,
          fcli, jargs, jbatch, jnotify, jpc, ji, jwire, jrsps, lsend, lwire,
          lrcvd, lpc>>

\* ---------------------------------------------------------------- chanutil
\* The framings of package channel, as values: the kind, and the content type
\* of a Header framing.
Fr(kind) == [kind |-> kind, t |-> <<>>]
NilFraming == Fr("nil")

\* Framing names, spelled as sequences of characters.
NameChunked == <<"c", "h", "u", "n", "k", "e", "d">>
NameDecimal == <<"d", "e", "c", "i", "m", "a", "l">>
NameLine == <<"l", "i", "n", "e">>
NameLSP == <<"l", "s", "p">>
NameRaw == <<"r", "a", "w">>
NameVarint == <<"v", "a", "r", "i", "n", "t">>
NameNul == <<"n", "u", "l">>
NameJSON == <<"j", "s", "o", "n">>
HeaderPrefix == <<"h", "e", "a", "d", "e", "r", ":">>

\* strings.HasPrefix and strings.TrimPrefix
HasPrefix(s, p) == Len(s) >= Len(p) /\ SubSeq(s, 1, Len(p)) = p
TrimPrefix(s, p) == IF HasPrefix(s, p) THEN SubSeq(s, Len(p) + 1, Len(s)) ELSE s

\* The map framings: a name that is not a key yields the zero value, nil.
framings(name) ==
    CASE name = NameChunked -> Fr("Chunked")
      [] name = NameDecimal -> Fr("Decimal")
      [] name = NameLine -> Fr("Line")
      [] name = NameLSP -> Fr("LSP")
      [] name = NameRaw -> Fr("RawJSON")
      [] name = NameVarint -> Fr("Varint")
      [] OTHER -> NilFraming

\* chanutil.Framing
Framing(name) ==
    LET t == TrimPrefix(name, HeaderPrefix)
    IN  IF t # name THEN [kind |-> "Header", t |-> t] ELSE framings(name)

\* The characters short names are spelled from, and the short names.
NameChars == {"l", "s", "p", "n", "u"}
ShortNames == UNION {[1..n -> NameChars] : n \in 0..MaxNameLen}

\* The values given to the -f flag: the names the usage text and the package
\* document, short names, and names with the header prefix at the front, in
\* the middle, or cut short.
FramingInputs ==
    {NameChunked, NameDecimal, NameLine, NameLSP, NameRaw, NameVarint, NameNul,
     NameJSON}
        \cup ShortNames
        \cup {HeaderPrefix \o n : n \in {<<>>, NameLSP, NameNul, HeaderPrefix}}
        \cup {<<"x">> \o HeaderPrefix \o NameLSP, SubSeq(HeaderPrefix, 1, 6),
              <<"H">> \o Tail(HeaderPrefix) \o NameLSP}

\* ------------------------------------------------------------ construction
\* Concurrency(n): a value below 1 is treated as 1.
ClampConcurrency(n) == IF n < 1 THEN 1 ELSE n

\* NewServer: the semaphore has weight 1 unless a Concurrency option replaces it.
\* opts is the list of Concurrency options given: none, or one with its argument.
NewServerSem(opts) == IF opts = <<>> THEN 1 ELSE ClampConcurrency(opts[1])

\* The option lists NewServer is given.
OptLists == {<<>>} \cup {<<n>> : n \in {0, MaxConc}}

\* ------------------------------------------------------------------ helpers
\* Server.versionOK
versionOK(v, allow) == IF v = "" THEN allow ELSE v = Version

\* s.mux.Assign(name) # nil: the assigner knows the method "add" only.
Assign(m) == m = "add"

\* A disposition that never looks at the live-ID set.
TaskErrNoDup(req, u, allow) ==
    IF ~versionOK(req.v, allow) THEN "badversion"
    ELSE IF req.m = "" THEN "emptymethod"
    ELSE IF ~(req.m = "add") THEN "nomethod"
    ELSE NoErr

\* A disposition that looks at the method before the live-ID set.
TaskErrMethodFirst(req, u, allow) ==
    IF ~versionOK(req.v, allow) THEN "badversion"
    ELSE IF req.m = "" THEN "emptymethod"
    ELSE IF ~(req.m = "add") THEN "nomethod"
    ELSE IF req.id # "" /\ req.id \in u THEN "duplicate"
    ELSE NoErr

\* The disposition nextRequest gives a request while s.used is u: "nil" when a
\* handler is bound, else the reason of the error.
TaskErr(req, u, allow) ==
    IF ~versionOK(req.v, allow) THEN "badversion"
    ELSE IF req.id # "" /\ req.id \in u THEN "duplicate"
    ELSE IF req.m = "" THEN "emptymethod"
    ELSE IF ~Assign(req.m) THEN "nomethod"
    ELSE NoErr

\* s.used after nextRequest has looked at req: s.used.Add(id) is evaluated only
\* when the version is accepted and the ID is not empty.
UsedAfter(req, u, allow) ==
    IF versionOK(req.v, allow) /\ req.id # "" THEN u \cup {req.id} ELSE u

\* The task nextRequest builds for req.
NewTask(req, u, allow) ==
    LET e == TaskErr(req, u, allow)
    IN  [req |-> req, err |-> e, val |-> "nil",
         st |-> IF e = NoErr THEN "wait" ELSE "bogus"]

\* The loop of nextRequest over the requests of a batch.
RECURSIVE Resolve(_, _, _)
Resolve(reqs, u, allow) ==
    IF reqs = <<>> THEN [tasks |-> <<>>, used |-> u]
    ELSE LET req  == Head(reqs)
             rest == Resolve(Tail(reqs), UsedAfter(req, u, allow), allow)
         IN  [tasks |-> <<NewTask(req, u, allow)>> \o rest.tasks,
              used |-> rest.used]

\* Server.dispatch: the (val, err) a handler invocation leaves on its task.
\* o is what the handler does: returns a value, returns an *Error, returns a
\* value json.Marshal rejects. (A panic does not return.)
dispatch(req, o) ==
    IF o = "Error"
    THEN IF req.id = "" THEN [val |-> "nil", err |-> NoErr]
         ELSE [val |-> "nil", err |-> "Error"]
    ELSE IF o = "unmarshalable" THEN [val |-> "nil", err |-> "marshal"]
    ELSE [val |-> "json", err |-> NoErr]

\* The code of the error object responses() builds for a task error: an *Error
\* keeps its code (the ones nextRequest makes with Errorf, and the handler's);
\* anything else becomes E_InternalError.
ErrCode(e) ==
    IF e \in {"badversion", "duplicate", "emptymethod"} THEN "E_InvalidRequest"
    ELSE IF e = "nomethod" THEN "E_MethodNotFound"
    ELSE IF e = "Error" THEN "E_InvalidParams"
    ELSE "E_InternalError"

\* A responses() that collects the entries last to first.
RECURSIVE responsesReversed(_)
responsesReversed(ts) ==
    IF ts = <<>> THEN <<>>
    ELSE LET t == Head(ts)
         IN  IF t.req.id = "" /\ t.err = NoErr
             THEN responsesReversed(Tail(ts))
             ELSE responsesReversed(Tail(ts))
                  \o <<[id |-> t.req.id,
                        code |-> IF t.err = NoErr THEN "result" ELSE ErrCode(t.err)]>>

\* tasks.responses
RECURSIVE responses(_)
responses(ts) ==
    IF ts = <<>> THEN <<>>
    ELSE LET t == Head(ts)
         IN  IF t.req.id = "" /\ t.err = NoErr
             THEN responses(Tail(ts))
             ELSE <<[id |-> t.req.id,
                     code |-> IF t.err = NoErr THEN "result" ELSE ErrCode(t.err)]>>
                  \o responses(Tail(ts))

\* A reader that answers every frame it does not queue with ParseError.
PushCodeParse(d) == "E_ParseError"

\* The code Server.read gives pushError: ParseError when Decode failed with a
\* recoverable error, InvalidRequest when the batch decoded is empty.
PushCode(d) == IF d \in RecoverableErrs THEN "E_ParseError" ELSE "E_InvalidRequest"

\* A scheduler that does not look whether the server is stopped.
RunningAlways(c) == TRUE

\* nextRequest goes on to the queue only while s.closer is not nil.
Running(c) == c # "nil"

\* A lock that never blocks.
CanLockAlways(m) == TRUE

\* s.mu.Lock() returns only when nobody holds s.mu.
CanLock(m) == m = {}

\* A semaphore that never blocks.
CanAcquireAlways(held, cap) == TRUE

\* A semaphore that never hands out a permit.
CanAcquireNever(held, cap) == FALSE

\* sem.Acquire(ctx, 1) returns only when a permit is free.
CanAcquire(held, cap) == held + 1 <= cap

\* A stop that records the error of every caller, not only of the first.
stopOverwrite(e) ==
    IF closer = "nil"
    THEN [closer |-> closer, err |-> e, closeCount |-> closeCount]
    ELSE [closer |-> "nil", err |-> e, closeCount |-> closeCount + 1]

\* A stop that does not look whether the server is running.
stopAgain(e) == [closer |-> "nil", err |-> e, closeCount |-> closeCount + 1]

\* A stop that closes the connection but does not record the error.
stopNoErr(e) ==
    IF closer = "nil"
    THEN [closer |-> closer, err |-> err, closeCount |-> closeCount]
    ELSE [closer |-> "nil", err |-> err, closeCount |-> closeCount + 1]

\* Server.stop(e): the fields it leaves, given the current ones.
stop(e) ==
    IF closer = "nil"
    THEN [closer |-> closer, err |-> err, closeCount |-> closeCount]
    ELSE [closer |-> "nil", err |-> e, closeCount |-> closeCount + 1]

\* One Write call on the connection made by s.outq.Encode.
WriteRec(src, b, rsps) ==
    [src |-> src, b |-> b, rsps |-> rsps, closed |-> closer = "nil"]

\* Whether the server has been started.
started == sched # "idle"

\* History: the first termination cause of a running server.
CauseAfter(c) == IF started /\ cause = "none" THEN c ELSE cause

\* -------------------------------------------------------------------- Init
\* The state NewServer(mux, opts...) returns: a says whether AllowV1(true) is
\* among the options, opts is the list of Concurrency options.
NewServer(a, opts) ==
    /\ concOpt = opts
    /\ semCap = NewServerSem(opts)
    /\ allow1 = a
    /\ closer = "nil"
    /\ err = NoErr
    /\ inq = <<>>
    /\ used = {}
    /\ semHeld = 0
    /\ mu = {}
    /\ rdr = [pc |-> "idle", got |-> "none", code |-> "none"]
    /\ sched = "idle"
    /\ bat = <<>>
    /\ out = <<>>
    /\ closeCount = 0
    /\ crashed = FALSE
    /\ nread = 0
    /\ cause = "none"
    /\ waitRes = "pending"

\* jcall is not looking up a framing.
NoFraming ==
    /\ fname = <<>>
    /\ fres = NilFraming
    /\ fcli = "none"

\* jcall is not issuing calls.
NoCalls ==
    /\ jargs = <<>>
    /\ jbatch = FALSE
    /\ jnotify = FALSE
    /\ jpc = "none"
    /\ ji = 0
    /\ jwire = <<>>
    /\ jrsps = <<>>

\* No LSP channel is in use.
NoLSP ==
    /\ lsend = <<>>
    /\ lwire = <<>>
    /\ lrcvd = <<>>
    /\ lpc = "none"

\* No jcall command is running and no channel is in use.
NoCli == NoFraming /\ NoCalls /\ NoLSP

\* A server built with or without a Concurrency option.
Init == (\E opts \in OptLists : NewServer(FALSE, opts)) /\ NoCli

\* A server built with Concurrency(MaxConc), with or without AllowV1(true).
InitDisp == (\E a \in BOOLEAN : NewServer(a, <<MaxConc>>)) /\ NoCli

\* ----------------------------------------------------------------- actions
\* Server.Start on a server that is not running: set up the queue and the ID
\* set, clear the error, start the reader and the scheduler.
Start ==
    /\ ~crashed /\ sched = "idle" /\ CanLock(mu)
    /\ closer = "nil"
    /\ closer' = "conn"
    /\ inq' = <<>>
    /\ used' = {}
    /\ err' = NoErr
    /\ rdr' = [pc |-> "decode", got |-> "none", code |-> "none"]
    /\ sched' = "wait"
    /\ UNCHANGED <<semCap, allow1, semHeld, mu, bat, out, closeCount, crashed,
                   nread, cause, concOpt, waitRes>>
    /\ UNCHANGED cliVars

\* Server.Stop, called by anyone at any time, any number of times.
Stop ==
    /\ ~crashed /\ CanLock(mu)
    /\ closer' = stop(ErrServerStopped).closer
    /\ err' = stop(ErrServerStopped).err
    /\ closeCount' = stop(ErrServerStopped).closeCount
    /\ cause' = CauseAfter("Stop")
    /\ UNCHANGED <<semCap, allow1, inq, used, semHeld, mu, rdr, sched, bat, out,
                   crashed, nread, concOpt, waitRes>>
    /\ UNCHANGED cliVars

\* Server.read, one turn of the loop: Decode yields a non-empty batch, which
\* is pushed on s.inq.
ReadBatch(b) ==
    /\ ~crashed /\ rdr.pc = "decode" /\ CanLock(mu)
    /\ nread' = nread + 1
    /\ inq' = Append(inq, b)
    /\ UNCHANGED <<semCap, allow1, closer, err, used, semHeld, mu, rdr, sched,
                   bat, out, closeCount, crashed, cause, concOpt, waitRes>>
    /\ UNCHANGED cliVars

\* Server.read, one turn of the loop: Decode fails with a recoverable error,
\* or yields an empty batch (d says which); the reader takes s.mu and enters
\* pushError.
ReadPushError(d) ==
    /\ ~crashed /\ rdr.pc = "decode" /\ CanLock(mu)
    /\ nread' = nread + 1
    /\ mu' = mu \cup {0}
    /\ rdr' = [pc |-> "push", got |-> d, code |-> PushCode(d)]
    /\ UNCHANGED <<semCap, allow1, closer, err, inq, used, semHeld, sched, bat,
                   out, closeCount, crashed, cause, concOpt, waitRes>>
    /\ UNCHANGED cliVars

\* Server.pushError: s.outq.Encode writes the error response; the reader
\* releases s.mu and goes back to Decode.
PushErrorDone ==
    /\ ~crashed /\ rdr.pc = "push"
    /\ out' = Append(out, WriteRec("reader", 0, <<[id |-> "", code |-> rdr.code]>>))
    /\ mu' = mu \ {0}
    /\ rdr' = [pc |-> "decode", got |-> "none", code |-> "none"]
    /\ UNCHANGED <<semCap, allow1, closer, err, inq, used, semHeld, sched, bat,
                   closeCount, crashed, nread, cause, concOpt, waitRes>>
    /\ UNCHANGED cliVars

\* Server.read, last turn of the loop: Decode fails with any other error; the
\* reader calls s.stop(e), leaves the loop and drops the queue.
ReadFatal(e) ==
    /\ ~crashed /\ rdr.pc = "decode" /\ CanLock(mu)
    /\ closer' = stop(e).closer
    /\ err' = stop(e).err
    /\ closeCount' = stop(e).closeCount
    /\ cause' = CauseAfter(e)
    /\ inq' = <<>>
    /\ rdr' = [pc |-> "exited", got |-> "none", code |-> "none"]
    /\ UNCHANGED <<semCap, allow1, used, semHeld, mu, sched, bat, out, crashed,
                   nread, concOpt, waitRes>>
    /\ UNCHANGED cliVars

\* Server.nextRequest when the server is stopped: it returns s.err and the
\* scheduler goroutine ends.
SchedExit ==
    /\ ~crashed /\ sched = "wait" /\ CanLock(mu)
    /\ closer = "nil"
    /\ sched' = "exited"
    /\ UNCHANGED <<semCap, allow1, closer, err, inq, used, semHeld, mu, rdr, bat,
                   out, closeCount, crashed, nread, cause, concOpt, waitRes>>
    /\ UNCHANGED cliVars

\* Server.nextRequest when a batch is queued: dequeue it, resolve its tasks
\* under the lock, and hand the batch function to a new goroutine.
NextRequest ==
    /\ ~crashed /\ sched = "wait" /\ CanLock(mu)
    /\ Running(closer) /\ inq # <<>>
    /\ LET r == Resolve(Head(inq), used, allow1)
       IN  /\ used' = r.used
           /\ bat' = Append(bat, [tasks |-> r.tasks, pc |-> "run"])
    /\ inq' = Tail(inq)
    /\ UNCHANGED <<semCap, allow1, closer, err, semHeld, mu, rdr, sched, out,
                   closeCount, crashed, nread, cause, concOpt, waitRes>>
    /\ UNCHANGED cliVars

\* A handler goroutine of batch b takes its permit and enters dispatch.
Acquire(b, i) ==
    /\ ~crashed /\ bat[b].pc = "run" /\ bat[b].tasks[i].st = "wait"
    /\ CanAcquire(semHeld, semCap)
    /\ semHeld' = semHeld + 1
    /\ bat' = [bat EXCEPT ![b].tasks[i].st = "run"]
    /\ UNCHANGED <<semCap, allow1, closer, err, inq, used, mu, rdr, sched, out,
                   closeCount, crashed, nread, cause, concOpt, waitRes>>
    /\ UNCHANGED cliVars

\* The handler returns: dispatch stores the result or the error on the task and
\* the permit is released.
Finish(b, i, o) ==
    /\ ~crashed /\ bat[b].tasks[i].st = "run"
    /\ semHeld' = semHeld - 1
    /\ LET t == bat[b].tasks[i]
           r == dispatch(t.req, o)
       IN  bat' = [bat EXCEPT ![b].tasks[i] =
                       [req |-> t.req, err |-> r.err, val |-> r.val, st |-> "done"]]
    /\ UNCHANGED <<semCap, allow1, closer, err, inq, used, mu, rdr, sched, out,
                   closeCount, crashed, nread, cause, concOpt, waitRes>>
    /\ UNCHANGED cliVars

\* The handler panics: nothing on the goroutine's stack recovers, and the
\* process dies.
Panic(b, i) ==
    /\ ~crashed /\ bat[b].tasks[i].st = "run"
    /\ crashed' = TRUE
    /\ UNCHANGED <<semCap, allow1, closer, err, inq, used, semHeld, mu, rdr, sched,
                   bat, out, closeCount, nread, cause, concOpt, waitRes>>
    /\ UNCHANGED cliVars

\* A batch function that does not wait for its handlers.
AllDoneNoWait(b) == TRUE

\* Every handler of batch b has returned (g.Wait).
AllDone(b) == \A i \in 1..Len(bat[b].tasks) : bat[b].tasks[i].st \in {"bogus", "done"}

\* The batch function after g.Wait, with no response owed: it returns.
NoReply(b) ==
    /\ ~crashed /\ bat[b].pc = "run" /\ AllDone(b)
    /\ responses(bat[b].tasks) = <<>>
    /\ bat' = [bat EXCEPT ![b].pc = "done"]
    /\ UNCHANGED <<semCap, allow1, closer, err, inq, used, semHeld, mu, rdr, sched,
                   out, closeCount, crashed, nread, cause, concOpt, waitRes>>
    /\ UNCHANGED cliVars

\* The batch function after g.Wait, with responses owed: Server.send takes s.mu.
SendBegin(b) ==
    /\ ~crashed /\ bat[b].pc = "run" /\ AllDone(b)
    /\ responses(bat[b].tasks) # <<>>
    /\ CanLock(mu)
    /\ mu' = mu \cup {b}
    /\ bat' = [bat EXCEPT ![b].pc = "send"]
    /\ UNCHANGED <<semCap, allow1, closer, err, inq, used, semHeld, rdr, sched, out,
                   closeCount, crashed, nread, cause, concOpt, waitRes>>
    /\ UNCHANGED cliVars

\* Server.send: s.outq.Encode writes the responses of the batch in one Write,
\* and s.mu is released.
SendDone(b) ==
    /\ ~crashed /\ bat[b].pc = "send"
    /\ out' = Append(out, WriteRec("batch", b, responses(bat[b].tasks)))
    /\ mu' = mu \ {b}
    /\ bat' = [bat EXCEPT ![b].pc = "done"]
    /\ UNCHANGED <<semCap, allow1, closer, err, inq, used, semHeld, rdr, sched,
                   closeCount, crashed, nread, cause, concOpt, waitRes>>
    /\ UNCHANGED cliVars

\* Server.Wait on a started server: once the reader and the scheduler are done
\* (s.wg), it drops s.used and returns s.err.
Wait ==
    /\ ~crashed /\ waitRes = "pending"
    /\ rdr.pc = "exited" /\ sched = "exited"
    /\ waitRes' = err
    /\ used' = {}
    /\ UNCHANGED <<semCap, allow1, closer, err, inq, semHeld, mu, rdr, sched,
                   bat, out, closeCount, crashed, nread, cause, concOpt>>
    /\ UNCHANGED cliVars

Next ==
    \/ Start
    \/ Stop
    \/ \E b \in CoreBatches : nread < MaxFrames /\ ReadBatch(b)
    \/ \E d \in BadFrames : nread < MaxFrames /\ ReadPushError(d)
    \/ PushErrorDone
    \/ \E e \in FatalErrs : ReadFatal(e)
    \/ SchedExit
    \/ NextRequest
    \/ \E b \in 1..Len(bat) : \E i \in 1..Len(bat[b].tasks) : Acquire(b, i)
    \/ \E b \in 1..Len(bat) : \E i \in 1..Len(bat[b].tasks) :
           \E o \in CoreOutcomes : Finish(b, i, o)
    \/ \E b \in 1..Len(bat) : \E i \in 1..Len(bat[b].tasks) : Panic(b, i)
    \/ \E b \in 1..Len(bat) : NoReply(b)
    \/ \E b \in 1..Len(bat) : SendBegin(b)
    \/ \E b \in 1..Len(bat) : SendDone(b)
    \/ Wait

\* The whole lifecycle of one connection, the peer sending CoreBatches.
Spec == Init /\ [][Next]_vars

\* Dispatch alone, of every batch the wire schema allows, on a server that is
\* not stopped: every version marker, ID and method, every handler outcome.
NextDisp ==
    \/ Start
    \/ \E b \in Batches : nread < MaxDispFrames /\ ReadBatch(b)
    \/ NextRequest
    \/ \E b \in 1..Len(bat) : \E i \in 1..Len(bat[b].tasks) : Acquire(b, i)
    \/ \E b \in 1..Len(bat) : \E i \in 1..Len(bat[b].tasks) :
           \E o \in Outcomes : Finish(b, i, o)
    \/ \E b \in 1..Len(bat) : NoReply(b)
    \/ \E b \in 1..Len(bat) : SendBegin(b)
    \/ \E b \in 1..Len(bat) : SendDone(b)

SpecDisp == InitDisp /\ [][NextDisp]_vars

\* -------------------------------------------------- scheduling and progress
\* The requests and batches the peer sends while progress is explored: a call
\* and a notification of the method the assigner knows.
LiveRequests ==
    {[v |-> "2.0", id |-> "1", m |-> "add"],
     [v |-> "2.0", id |-> "", m |-> "add"]}
LiveBatches == UNION {[1..n -> LiveRequests] : n \in 1..MaxBatchLen}

\* A server built without options: one permit.
InitLive == NewServer(FALSE, <<>>) /\ NoCli

\* The whole lifecycle of one connection, the peer sending LiveBatches.
NextLive ==
    \/ Start
    \/ Stop
    \/ \E b \in LiveBatches : nread < MaxLiveFrames /\ ReadBatch(b)
    \/ \E d \in BadFrames : nread < MaxLiveFrames /\ ReadPushError(d)
    \/ PushErrorDone
    \/ \E e \in FatalErrs : ReadFatal(e)
    \/ SchedExit
    \/ NextRequest
    \/ \E b \in 1..Len(bat) : \E i \in 1..Len(bat[b].tasks) : Acquire(b, i)
    \/ \E b \in 1..Len(bat) : \E i \in 1..Len(bat[b].tasks) :
           \E o \in CoreOutcomes : Finish(b, i, o)
    \/ \E b \in 1..Len(bat) : \E i \in 1..Len(bat[b].tasks) : Panic(b, i)
    \/ \E b \in 1..Len(bat) : NoReply(b)
    \/ \E b \in 1..Len(bat) : SendBegin(b)
    \/ \E b \in 1..Len(bat) : SendDone(b)
    \/ Wait

\* What the Go runtime and the connection guarantee: a goroutine that can
\* take its next step takes it (the reader inside pushError, the scheduler, a
\* handler goroutine waiting for a free permit, a batch goroutine after
\* g.Wait), a Write on the connection returns, Decode on a closed connection
\* returns an error, and a caller of Wait is waiting.
Scheduling ==
    /\ WF_vars(PushErrorDone)
    /\ WF_vars(closer = "nil" /\ \E e \in FatalErrs : ReadFatal(e))
    /\ WF_vars(SchedExit)
    /\ WF_vars(NextRequest)
    /\ WF_vars(\E b \in 1..Len(bat) : \E i \in 1..Len(bat[b].tasks) : Acquire(b, i))
    /\ WF_vars(\E b \in 1..Len(bat) : NoReply(b))
    /\ WF_vars(\E b \in 1..Len(bat) : SendBegin(b))
    /\ WF_vars(\E b \in 1..Len(bat) : SendDone(b))
    /\ WF_vars(Wait)

\* Every handler invocation returns.
HandlersReturn ==
    WF_vars(\E b \in 1..Len(bat) : \E i \in 1..Len(bat[b].tasks) :
                \E o \in CoreOutcomes : Finish(b, i, o))

\* The lifecycle under the runtime's scheduling, handlers free to run forever.
SpecStop == InitLive /\ [][NextLive]_vars /\ Scheduling

\* The lifecycle under the runtime's scheduling, with handlers that return.
SpecServe == InitLive /\ [][NextLive]_vars /\ Scheduling /\ HandlersReturn

\* ------------------------------------------------------ jcall: the -f flag
\* jcall has parsed its flags; -f has any of the values FramingInputs.
InitFraming ==
    /\ NewServer(FALSE, <<>>)
    /\ NoCalls /\ NoLSP
    /\ fname \in FramingInputs
    /\ fres = NilFraming
    /\ fcli = "flags"

\* newClient calls chanutil.Framing(*chanFraming).
CallFraming ==
    /\ fcli = "flags"
    /\ fres' = Framing(fname)
    /\ fcli' = "framed"
    /\ UNCHANGED <<fname, srvVars, callVars, lspVars>>

\* newClient, nc == nil: log.Fatalf ends jcall.
NewClientFatal ==
    /\ fcli = "framed" /\ fres = NilFraming
    /\ fcli' = "fatal"
    /\ UNCHANGED <<fname, fres, srvVars, callVars, lspVars>>

\* newClient, nc != nil: the client is built on the framed connection.
NewClientOK ==
    /\ fcli = "framed" /\ fres # NilFraming
    /\ fcli' = "client"
    /\ UNCHANGED <<fname, fres, srvVars, callVars, lspVars>>

NextFraming == CallFraming \/ NewClientFatal \/ NewClientOK

\* jcall from its flags to its client, for every value of -f.
SpecFraming == InitFraming /\ [][NextFraming]_vars

\* ----------------------------------------------------- jcall: issuing calls
\* The <method> and <params> arguments, and the argument lists of 1..MaxCalls
\* pairs.
ArgMethods == {"add", "sub"}
ArgParams == {"", "[1]"}
ArgLists ==
    UNION {{a \in [1..(2 * n) -> ArgMethods \cup ArgParams] :
                \A k \in 1..n : a[2 * k - 1] \in ArgMethods /\ a[2 * k] \in ArgParams}
           : n \in 1..MaxCalls}

\* param: an empty argument is no parameters at all.
param(s) == IF s = "" THEN "nil" ELSE s

\* newSpecs: one spec per pair of arguments, all notifications under -notify.
newSpecs(args, notify) ==
    [k \in 1..(Len(args) \div 2) |->
         [Method |-> args[2 * k - 1], Params |-> param(args[2 * k]), Notify |-> notify]]

\* The frame Client.Batch transmits: every spec, in order, in one batch.
BatchFrame(specs) == specs

\* The frame Client.Call or Client.Notify transmits: the one request.
SingleFrame(spec) == <<spec>>

\* The response a call gets: it answers request pos of the frame-th frame.
ResponseTo(frame, pos) == [frame |-> frame, pos |-> pos]

\* jcall has built its client; the command line holds any flags and pairs.
InitCalls ==
    /\ NewServer(FALSE, <<>>)
    /\ NoFraming /\ NoLSP
    /\ jargs \in ArgLists
    /\ jbatch \in BOOLEAN
    /\ jnotify \in BOOLEAN
    /\ jpc = "issue"
    /\ ji = 0
    /\ jwire = <<>>
    /\ jrsps = <<>>

\* issueCalls under -batch: cli.Batch(ctx, specs) transmits the batch; what it
\* returns is dropped, and issueSequential follows.
IssueBatch ==
    /\ jpc = "issue" /\ jbatch
    /\ jwire' = Append(jwire, BatchFrame(newSpecs(jargs, jnotify)))
    /\ jpc' = "seq"
    /\ ji' = 1
    /\ UNCHANGED <<jargs, jbatch, jnotify, jrsps, framingVars, srvVars,
                   lspVars>>

\* issueCalls without -batch: issueSequential at once.
IssueNoBatch ==
    /\ jpc = "issue" /\ ~jbatch
    /\ jpc' = "seq"
    /\ ji' = 1
    /\ UNCHANGED <<jargs, jbatch, jnotify, jwire, jrsps, framingVars, srvVars,
                   lspVars>>

\* issueSequential, a spec with Notify set: cli.Notify transmits it.
SeqNotify ==
    /\ jpc = "seq" /\ ji <= Len(newSpecs(jargs, jnotify))
    /\ newSpecs(jargs, jnotify)[ji].Notify
    /\ jwire' = Append(jwire, SingleFrame(newSpecs(jargs, jnotify)[ji]))
    /\ ji' = ji + 1
    /\ UNCHANGED <<jargs, jbatch, jnotify, jpc, jrsps, framingVars, srvVars,
                   lspVars>>

\* issueSequential, any other spec: cli.Call transmits it and its response is
\* appended to rsps.
SeqCall ==
    /\ jpc = "seq" /\ ji <= Len(newSpecs(jargs, jnotify))
    /\ ~newSpecs(jargs, jnotify)[ji].Notify
    /\ jwire' = Append(jwire, SingleFrame(newSpecs(jargs, jnotify)[ji]))
    /\ jrsps' = Append(jrsps, ResponseTo(Len(jwire) + 1, 1))
    /\ ji' = ji + 1
    /\ UNCHANGED <<jargs, jbatch, jnotify, jpc, framingVars, srvVars,
                   lspVars>>

\* issueSequential: cli.Notify or cli.Call returns an error (the write failed,
\* the context ended, the connection failed); nil and the error are returned
\* and main ends with log.Fatalf.
SeqFail ==
    /\ jpc = "seq" /\ ji <= Len(newSpecs(jargs, jnotify))
    /\ jrsps' = <<>>
    /\ jpc' = "fatal"
    /\ UNCHANGED <<jargs, jbatch, jnotify, ji, jwire, framingVars, srvVars,
                   lspVars>>

\* issueSequential, past the last spec: rsps is returned and main prints it.
SeqDone ==
    /\ jpc = "seq" /\ ji > Len(newSpecs(jargs, jnotify))
    /\ jpc' = "done"
    /\ UNCHANGED <<jargs, jbatch, jnotify, ji, jwire, jrsps, framingVars, srvVars,
                   lspVars>>

NextCalls ==
    \/ IssueBatch
    \/ IssueNoBatch
    \/ SeqNotify
    \/ SeqCall
    \/ SeqFail
    \/ SeqDone

\* jcall from issueCalls to printResults, for every command line.
SpecCalls == InitCalls /\ [][NextCalls]_vars

\* ------------------------------------------------- channel: the LSP framing
\* Bytes with a meaning for the framing, named.
CR == "CR"
LF == "LF"
SP == " "

\* fmt %d and strconv.Atoi: decimal digits, most significant first.
Digits == <<"0", "1", "2", "3", "4", "5", "6", "7", "8", "9">>

\* A formatting that keeps the last digit only.
ItoaUnits(n) == <<Digits[(n % 10) + 1]>>

RECURSIVE Itoa(_)
Itoa(n) ==
    IF n < 10 THEN <<Digits[n + 1]>>
    ELSE Itoa(n \div 10) \o <<Digits[(n % 10) + 1]>>

IsDigit(c) == \E d \in 1..10 : Digits[d] = c
DigitVal(c) == (CHOOSE d \in 1..10 : Digits[d] = c) - 1

RECURSIVE AtoiDigits(_, _)
AtoiDigits(s, acc) ==
    IF s = <<>> THEN [ok |-> TRUE, val |-> acc]
    ELSE IF ~IsDigit(Head(s)) THEN [ok |-> FALSE, val |-> 0]
    ELSE AtoiDigits(Tail(s), 10 * acc + DigitVal(Head(s)))

\* strconv.Atoi: an optional sign, then at least one digit, and digits only.
Atoi(s) ==
    LET signed == s # <<>> /\ Head(s) \in {"+", "-"}
        digits == IF signed THEN Tail(s) ELSE s
        r      == AtoiDigits(digits, 0)
    IN  IF digits = <<>> THEN [ok |-> FALSE, val |-> 0]
        ELSE IF signed /\ Head(s) = "-" THEN [ok |-> r.ok, val |-> 0 - r.val]
        ELSE r

\* The position of the first c in s, 0 when there is none.
IndexOf(s, c) ==
    IF \E i \in 1..Len(s) : s[i] = c
    THEN CHOOSE i \in 1..Len(s) : s[i] = c /\ \A j \in 1..(i - 1) : s[j] # c
    ELSE 0

\* bufio.Reader.ReadString('\n') on the unread bytes s: the bytes up to and
\* with the first LF, or all of them and io.EOF when there is no LF.
ReadString(s) ==
    LET i == IndexOf(s, LF)
    IN  IF i = 0 THEN [raw |-> s, rest |-> <<>>, err |-> "io.EOF"]
        ELSE [raw |-> SubSeq(s, 1, i), rest |-> SubSeq(s, i + 1, Len(s)),
              err |-> NoErr]

\* strings.TrimRight, strings.TrimLeft, strings.TrimSpace
RECURSIVE TrimRight(_, _)
TrimRight(s, cutset) ==
    IF s # <<>> /\ s[Len(s)] \in cutset
    THEN TrimRight(SubSeq(s, 1, Len(s) - 1), cutset)
    ELSE s

RECURSIVE TrimLeft(_, _)
TrimLeft(s, cutset) ==
    IF s # <<>> /\ Head(s) \in cutset THEN TrimLeft(Tail(s), cutset) ELSE s

TrimSpace(s) == TrimLeft(TrimRight(s, {SP, CR, LF}), {SP, CR, LF})

\* strings.SplitN(line, ":", 2)
SplitN2(line) ==
    LET i == IndexOf(line, ":")
    IN  IF i = 0 THEN <<line>>
        ELSE <<SubSeq(line, 1, i - 1), SubSeq(line, i + 1, Len(line))>>

\* strings.ToLower, on the letters that occur in the bytes modelled.
LowerChar(c) == IF c = "C" THEN "c" ELSE IF c = "L" THEN "l" ELSE c
ToLower(s) == [k \in 1..Len(s) |-> LowerChar(s[k])]

\* The header LSP.Send writes in front of the length, and the key LSP.Recv
\* looks up.
ContentLengthText ==
    <<"C", "o", "n", "t", "e", "n", "t", "-", "L", "e", "n", "g", "t", "h", ":", SP>>
ContentLengthKey ==
    <<"c", "o", "n", "t", "e", "n", "t", "-", "l", "e", "n", "g", "t", "h">>

\* LSP.Send(msg) on a stream holding w: "Content-Length: %d\r\n\r\n", then msg.
Send(w, msg) ==
    w \o ContentLengthText \o Itoa(Len(msg)) \o <<CR, LF, CR, LF>> \o msg

\* LSP.Recv, the header loop, on the unread bytes s with the headers h read
\* so far.
RECURSIVE RecvHeaders(_, _)
RecvHeaders(s, h) ==
    LET r     == ReadString(s)
        line  == TrimRight(r.raw, {CR, LF})
        parts == SplitN2(line)
    IN  IF line # <<>> /\ Len(parts) # 2
        THEN [err |-> "invalid header line", h |-> h, rest |-> r.rest]
        ELSE LET h2 == IF line # <<>>
                       THEN (ToLower(parts[1]) :> TrimSpace(parts[2])) @@ h
                       ELSE h
             IN  IF r.err = "io.EOF" \/ line = <<>>
                 THEN [err |-> NoErr, h |-> h2, rest |-> r.rest]
                 ELSE RecvHeaders(r.rest, h2)

\* io.ReadFull(c.rd, data) with len(data) = n
ReadFull(s, n) ==
    IF Len(s) < n
    THEN [data |-> <<>>, err |-> "unexpected EOF", rest |-> <<>>]
    ELSE [data |-> SubSeq(s, 1, n), err |-> NoErr, rest |-> SubSeq(s, n + 1, Len(s))]

\* LSP.Recv on the unread bytes s: the message or the error, and the bytes
\* left unread.
Recv(s) ==
    LET hd == RecvHeaders(s, <<>>)
    IN  IF hd.err # NoErr THEN [data |-> <<>>, err |-> hd.err, rest |-> hd.rest]
        ELSE IF ContentLengthKey \notin DOMAIN hd.h
        THEN [data |-> <<>>, err |-> "missing required content-length",
              rest |-> hd.rest]
        ELSE LET size == Atoi(hd.h[ContentLengthKey])
             IN  IF ~size.ok
                 THEN [data |-> <<>>, err |-> "invalid content-length",
                       rest |-> hd.rest]
                 ELSE IF size.val < 0
                 THEN [data |-> <<>>, err |-> "negative content-length",
                       rest |-> hd.rest]
                 ELSE ReadFull(hd.rest, size.val)

\* The bytes short messages are spelled from, the short messages, and a long
\* message that itself reads like two frames.
MsgBytes == {CR, LF, ":", "1"}
ShortMsgs == UNION {[1..n -> MsgBytes] : n \in 0..MaxMsgLen}
LongMsg ==
    ContentLengthText \o <<"1", CR, LF, CR, LF, ":">>
        \o ContentLengthText \o <<"0", CR, LF, CR, LF>>
Messages == ShortMsgs \cup {LongMsg}

\* A channel made by NewLSP on an empty stream.
InitLSP ==
    /\ NewServer(FALSE, <<>>)
    /\ NoFraming /\ NoCalls
    /\ lsend = <<>>
    /\ lwire = <<>>
    /\ lrcvd = <<>>
    /\ lpc = "send"

\* c.Send(m)
LSPSend(m) ==
    /\ lpc = "send" /\ Len(lsend) < MaxMsgs
    /\ lsend' = Append(lsend, m)
    /\ lwire' = Send(lwire, m)
    /\ UNCHANGED <<lrcvd, lpc, framingVars, callVars, srvVars>>

\* The sender is done and the receiver starts.
LSPTurn ==
    /\ lpc = "send"
    /\ lpc' = "recv"
    /\ UNCHANGED <<lsend, lwire, lrcvd, framingVars, callVars, srvVars>>

\* c.Recv(), called once per message sent.
LSPRecv ==
    /\ lpc = "recv" /\ Len(lrcvd) < Len(lsend)
    /\ lrcvd' = Append(lrcvd, [data |-> Recv(lwire).data, err |-> Recv(lwire).err])
    /\ lwire' = Recv(lwire).rest
    /\ UNCHANGED <<lsend, lpc, framingVars, callVars, srvVars>>

NextLSP ==
    \/ \E m \in Messages : LSPSend(m)
    \/ LSPTurn
    \/ LSPRecv

\* Up to MaxMsgs messages sent on an LSP channel and then received.
SpecLSP == InitLSP /\ [][NextLSP]_vars

\* ------------------------------------------------------------- observations
\* The tasks of all batches, as (batch, index) pairs.
Tasks == {<<b, i>> \in (1..Len(bat)) \X (1..MaxBatchLen) : i <= Len(bat[b].tasks)}
TaskAt(p) == bat[p[1]].tasks[p[2]]

\* The handler invocations executing now.
Executing == {p \in Tasks : TaskAt(p).st = "run"}

\* The limit the Concurrency option asks for.
ConfiguredLimit ==
    IF concOpt = <<>> THEN 1 ELSE IF concOpt[1] < 1 THEN 1 ELSE concOpt[1]

\* ------------------------------------------------------------------- claims
\* C1: at every moment the number of handler invocations executing on the
\* server, counted over all batches in flight, is at most the configured
\* concurrency (1 by default, and 1 for a configured value below 1).
C1_ConcurrencyBound == Cardinality(Executing) <= ConfiguredLimit

\* C1 witness: Concurrency(MaxConc) with MaxConc > 1, the limit is reached by
\* handlers of two different batches while a third handler waits for a permit.
C1_Witness ==
    /\ concOpt = <<MaxConc>> /\ MaxConc > 1
    /\ Cardinality(Executing) = MaxConc
    /\ \E p, q \in Executing : p[1] # q[1]
    /\ \E p \in Tasks : TaskAt(p).st = "wait"

\* A step in which the scheduler dequeues a batch; NewBatch is then its tasks.
Dequeues == Len(bat') = Len(bat) + 1
NewBatch == bat'[Len(bat')].tasks

\* Request i of the batch being dequeued repeats the ID of an earlier request
\* that is still being processed: one of a batch that has not completed, or
\* one before it in its own batch. With accepted set, only earlier requests
\* whose version marker was accepted count.
RepeatsLive(i, accepted) ==
    LET id == NewBatch[i].req.id
    IN  /\ id # ""
        /\ \/ \E b \in 1..Len(bat) :
                  /\ bat[b].pc # "done"
                  /\ \E j \in 1..Len(bat[b].tasks) :
                         /\ bat[b].tasks[j].req.id = id
                         /\ accepted => bat[b].tasks[j].err # "badversion"
           \/ \E j \in 1..(i - 1) :
                  /\ NewBatch[j].req.id = id
                  /\ accepted => NewBatch[j].err # "badversion"

\* The request is answered with InvalidRequest and no handler is bound to it.
Rejected(t) == ErrCode(t.err) = "E_InvalidRequest" /\ t.st = "bogus"

\* What a dequeue does around a repeated ID: the repeating request is rejected,
\* only requests that are neither rejected for their version nor duplicates
\* add their ID to the live-ID set, and the batches in flight are untouched.
DuplicateHandling(accepted) ==
    /\ \A i \in 1..Len(NewBatch) : RepeatsLive(i, accepted) => Rejected(NewBatch[i])
    /\ used' = used \cup {NewBatch[i].req.id : i \in
                 {k \in 1..Len(NewBatch) :
                      /\ NewBatch[k].req.id # ""
                      /\ NewBatch[k].err \notin {"badversion", "duplicate"}}}
    /\ \A b \in 1..Len(bat) : bat'[b] = bat[b]

\* A task without handler never gets one invoked.
BogusStaysBogus ==
    \A b \in 1..Len(bat) : \A i \in 1..Len(bat[b].tasks) :
        bat[b].tasks[i].st = "bogus" => bat'[b].tasks[i] = bat[b].tasks[i]

\* C2 as claimed: a request whose non-empty ID equals the ID of any request
\* still being processed is rejected with InvalidRequest, its handler is never
\* invoked, it does not change the live-ID set, and the first request is
\* served as before.
C2_Original == [][(Dequeues => DuplicateHandling(FALSE)) /\ BogusStaysBogus]_vars

\* C2 as amended: the same, when the earlier request still being processed is
\* one whose version marker was accepted (only those enter the live-ID set).
C2_DuplicateRejected == [][(Dequeues => DuplicateHandling(TRUE)) /\ BogusStaysBogus]_vars

\* C2 witness: a call of an earlier batch is executing its handler, and a
\* request of a later batch with its ID has been rejected as a duplicate.
C2_Witness ==
    \E p, q \in Tasks :
        /\ p[1] < q[1]
        /\ TaskAt(p).st = "run"
        /\ TaskAt(q).req.id = TaskAt(p).req.id
        /\ TaskAt(q).err = "duplicate" /\ TaskAt(q).st = "bogus"

\* Request i of the batch being dequeued carries an ID that no request still
\* being processed carries, and an accepted version marker.
FreshID(i) ==
    /\ NewBatch[i].req.id # ""
    /\ versionOK(NewBatch[i].req.v, allow1)
    /\ ~RepeatsLive(i, FALSE)

\* C3 as claimed: the IDs of a processed batch leave the live-ID set, so a
\* later request that carries an ID of no request still being processed is
\* not rejected as a duplicate.
C3_Original ==
    [][Dequeues => \A i \in 1..Len(NewBatch) :
                       FreshID(i) => NewBatch[i].err # "duplicate"]_vars

\* The peer closed the connection cleanly before anything else ended the
\* server.
CleanEOF == cause = "io.EOF"

C5_Original ==
    \A k \in 1..Len(out) : out[k].src = "batch" => ~out[k].closed

\* The Write calls made for batch b, as positions of out.
Sends(b) == {k \in 1..Len(out) : out[k].src = "batch" /\ out[k].b = b}

\* The calls (requests with an ID) of batch b.
Calls(b) == {i \in 1..Len(bat[b].tasks) : bat[b].tasks[i].req.id # ""}

\* C6 as claimed: a completed batch with no call produced no reply, and one
\* with calls produced a reply holding exactly one response per call.
C6_Original ==
    \A b \in 1..Len(bat) :
        bat[b].pc = "done" =>
            IF Calls(b) = {} THEN Sends(b) = {}
            ELSE \E k \in 1..Len(out) :
                     /\ Sends(b) = {k}
                     /\ Len(out[k].rsps) = Cardinality(Calls(b))

\* The goroutines inside s.outq.Encode: the reader (0) in pushError, and the
\* batches in send.
Writers ==
    {b \in 1..Len(bat) : bat[b].pc = "send"}
        \cup (IF rdr.pc = "push" THEN {0} ELSE {})

\* The responses of a frame that answer a call.
CallResponses(rsps) == {k \in 1..Len(rsps) : rsps[k].id # ""}

\* C7: a batch is the subject of at most one Write, made when it completes; a
\* completed batch that holds a call has exactly one, which carries a response
\* for each of its calls; and at no time are two goroutines writing to the
\* connection (two batches, or a batch and the reader's error response).
C7_OneSendPerBatch ==
    /\ \A b \in 1..Len(bat) :
           /\ Cardinality(Sends(b)) <= 1
           /\ bat[b].pc # "done" => Sends(b) = {}
           /\ (bat[b].pc = "done" /\ Calls(b) # {}) =>
                  \E k \in 1..Len(out) :
                      /\ Sends(b) = {k}
                      /\ Cardinality(CallResponses(out[k].rsps)) = Cardinality(Calls(b))
    /\ Cardinality(Writers) <= 1

\* C7 witness: a batch with two calls has completed with its one Write, and
\* another batch is inside its own Write.
C7_Witness ==
    \E b1, b2 \in 1..Len(bat) :
        /\ bat[b1].pc = "done" /\ Cardinality(Calls(b1)) > 1 /\ Sends(b1) # {}
        /\ bat[b2].pc = "send"

\* C8 as claimed: a handler panic is caught and the server keeps running.
C8_Original == ~crashed

\* The error a first termination cause c leaves in s.err.
CauseErr(c) == IF c = "Stop" THEN ErrServerStopped ELSE c

\* C9: only the first termination cause takes effect: the final error, which
\* Wait returns, is ErrServerStopped exactly when a Stop came before any
\* reader failure and otherwise the reader's error; once the server is
\* stopped, no Stop and no reader failure changes the error, the closer or the
\* connection; and a Stop on a server that was never started changes nothing.
C9_FirstCauseWins ==
    [][/\ (started' /\ closer' = "nil") =>
              (cause' # "none" /\ err' = CauseErr(cause'))
       /\ (started /\ closer = "nil") =>
              /\ err' = err /\ closer' = closer /\ closeCount' = closeCount
              /\ cause' = cause
       /\ waitRes' # "pending" =>
              /\ waitRes' = CauseErr(cause')
              /\ waitRes' = ErrServerStopped <=> cause' = "Stop"
       /\ ~started => (started' \/ UNCHANGED vars)]_vars

\* C9 witness: Stop took effect first, the reader failed afterwards, and Wait
\* returned ErrServerStopped.
C9_Witness ==
    /\ cause = "Stop" /\ rdr.pc = "exited" /\ waitRes = ErrServerStopped

\* C10: Close is called on the connection at most once, not at all while the
\* server runs, and exactly once when it has terminated.
C10_ClosedOnce ==
    /\ closeCount <= 1
    /\ closer = "conn" => closeCount = 0
    /\ (started /\ closer = "nil") => closeCount = 1

\* C10 witness: Stop closed the connection, the reader then failed on it and
\* called stop again, both workers are gone, and Close has been called once.
C10_Witness ==
    /\ cause = "Stop" /\ rdr.pc = "exited" /\ sched = "exited"
    /\ closeCount = 1

\* The Write calls the reader made for its own error responses.
ReaderWrites(o) == {k \in 1..Len(o) : o[k].src = "reader"}

\* The one frame pushError writes for a frame d the reader does not queue: a
\* single error response with a null ID.
PushErrorFrame(d) ==
    <<[id |-> "",
       code |-> IF d = "empty" THEN "E_InvalidRequest" ELSE "E_ParseError"]>>

\* C12: a frame that fails to decode with a recoverable error, or decodes to
\* an empty batch, makes the reader write exactly one frame, holding one error
\* response with a null ID and the code ParseError (decode failure) or
\* InvalidRequest (empty batch); nothing is queued, the server is not stopped,
\* and the reader goes back to reading. The reader writes nothing else.
C12_BadFrameAnswered ==
    [][/\ (rdr.pc = "decode" /\ rdr'.pc = "push") =>
              /\ rdr'.got \in BadFrames
              /\ UNCHANGED <<inq, closer, err, closeCount, out, bat, sched>>
       /\ (rdr.pc = "push" /\ rdr'.pc = "push") => out' = out
       /\ (rdr.pc = "push" /\ rdr'.pc # "push") =>
              /\ Len(out') = Len(out) + 1
              /\ SubSeq(out', 1, Len(out)) = out
              /\ out'[Len(out')].src = "reader"
              /\ out'[Len(out')].rsps = PushErrorFrame(rdr.got)
              /\ rdr'.pc = "decode"
              /\ UNCHANGED <<inq, closer, err, closeCount, bat, sched>>
       /\ rdr.pc # "push" => ReaderWrites(out') = ReaderWrites(out)]_vars

\* C12 witness: on a running server the reader answered an empty batch with
\* its error response, then queued a batch that has been served with a reply
\* of its own, and the server is still running.
C12_Witness ==
    /\ Len(out) = 2 /\ closer = "conn" /\ rdr.pc = "decode"
    /\ out[1].src = "reader" /\ ~out[1].closed
    /\ out[1].rsps = <<[id |-> "", code |-> "E_InvalidRequest"]>>
    /\ out[2].src = "batch" /\ ~out[2].closed

\* The handlers dispatched for batch b that have not returned yet: waiting for
\* a permit, or executing.
Unfinished(b) ==
    {i \in 1..Len(bat[b].tasks) : bat[b].tasks[i].st \in {"wait", "run"}}

\* C13: no response of a batch is written until every handler dispatched for
\* the batch has completed: a batch that is inside its Write, or has made it,
\* has no handler waiting or executing, and the step that takes a batch into
\* its send starts from a state where all its handlers have returned.
C13_SendAfterHandlers ==
    [][\A b \in 1..Len(bat) :
           /\ (bat[b].pc = "send" \/ Sends(b) # {}) => Unfinished(b) = {}
           /\ (bat'[b].pc = "send" \/ Sends(b)' # {}) => Unfinished(b)' = {}
           /\ (bat[b].pc = "run" /\ bat'[b].pc # "run") =>
                  /\ Unfinished(b) = {}
                  /\ bat'[b].tasks = bat[b].tasks
           /\ (bat[b].pc # "run") => bat'[b].tasks = bat[b].tasks]_vars

\* C13 witness: under the default limit of one permit a batch of a call and a
\* notification had both handlers invoked, one after the other, and its reply
\* has been written.
C13_Witness ==
    \E b \in 1..Len(bat) :
        /\ semCap = 1 /\ Len(bat[b].tasks) = 2
        /\ \A i \in 1..2 : bat[b].tasks[i].st = "done"
        /\ \E k \in Sends(b) : Len(out[k].rsps) = 1

\* The responses of a frame that carry a null ID.
NullResponses(rsps) == {k \in 1..Len(rsps) : rsps[k].id = ""}

\* The notifications of batch b that nextRequest rejected, so that no handler
\* was invoked for them.
UninvokedNotifications(b) ==
    {i \in 1..Len(bat[b].tasks) :
         bat[b].tasks[i].req.id = "" /\ bat[b].tasks[i].st = "bogus"}

\* The notifications of batch b whose handler was invoked and has returned.
InvokedNotifications(b) ==
    {i \in 1..Len(bat[b].tasks) :
         bat[b].tasks[i].req.id = "" /\ bat[b].tasks[i].st = "done"}

\* C14 as claimed: a notification whose handler is invoked produces no response
\* entry and no frame, whatever the handler does: the reply of a batch holds
\* no more null-ID responses than the batch has notifications rejected before
\* invocation, and a batch made of invoked notifications only writes nothing.
C14_Original ==
    \A b \in 1..Len(bat) :
        /\ \A k \in Sends(b) :
               Cardinality(NullResponses(out[k].rsps))
                   <= Cardinality(UninvokedNotifications(b))
        /\ (bat[b].pc # "run"
              /\ Cardinality(InvokedNotifications(b)) = Len(bat[b].tasks))
               => bat[b].pc = "done" /\ Sends(b) = {}

\* The requests of batch b that are answered: the calls, and the notifications
\* left with an error.
Answered(b) ==
    {i \in 1..Len(bat[b].tasks) :
         bat[b].tasks[i].req.id # "" \/ bat[b].tasks[i].err # NoErr}

\* The k-th answered request of batch b, counted in the order of the inbound
\* batch.
NthAnswered(b, k) ==
    CHOOSE i \in Answered(b) : Cardinality({j \in Answered(b) : j < i}) = k - 1

\* C15: the responses of a batch reply stand in the order of their requests in
\* the inbound batch: the k-th response answers the k-th answered request (its
\* ID, and a result or an error as the request ended), in whatever order the
\* handlers of the batch started and completed.
C15_ResponseOrder ==
    \A b \in 1..Len(bat) : \A k \in Sends(b) :
        /\ Len(out[k].rsps) = Cardinality(Answered(b))
        /\ \A n \in 1..Len(out[k].rsps) :
               LET t == bat[b].tasks[NthAnswered(b, n)]
               IN  /\ out[k].rsps[n].id = t.req.id
                   /\ out[k].rsps[n].code = "result" <=> t.err = NoErr

\* C15 witness: with two permits, a batch of two calls with different IDs ran
\* both handlers, the first failed and the second succeeded, and the reply
\* holds the error of the first followed by the result of the second.
C15_Witness ==
    \E b \in 1..Len(bat) : \E k \in Sends(b) :
        /\ semCap = 2 /\ Len(bat[b].tasks) = 2
        /\ \A i \in 1..2 : bat[b].tasks[i].st = "done"
        /\ out[k].rsps = <<[id |-> "1", code |-> "E_InvalidParams"],
                           [id |-> "2", code |-> "result"]>>

\* Request i of the batch being dequeued carries a version marker the server
\* accepts.
VersionAccepted(i) ==
    IF NewBatch[i].req.v = "" THEN allow1 ELSE NewBatch[i].req.v = "2.0"

\* The IDs that requests before request i of the batch being dequeued have put
\* in the live-ID set, besides those it held before the dequeue.
SeenBefore(i) ==
    used \cup {NewBatch[j].req.id : j \in
                 {k \in 1..(i - 1) : VersionAccepted(k) /\ NewBatch[k].req.id # ""}}

\* The disposition the precedence gives request i of the batch being dequeued.
Disposition(i) ==
    LET req == NewBatch[i].req
    IN  IF ~VersionAccepted(i) THEN "badversion"
        ELSE IF req.id # "" /\ req.id \in SeenBefore(i) THEN "duplicate"
        ELSE IF req.m = "" THEN "emptymethod"
        ELSE IF req.m # "add" THEN "nomethod"
        ELSE NoErr

\* C19: at the dequeue every request gets the disposition of the precedence
\* version marker, duplicate ID, empty method, unknown method, handler bound;
\* the live-ID set gains exactly the non-empty IDs of the requests whose
\* version marker was accepted, rejected for their method or not; a request
\* with an error disposition has no handler and never gets one invoked, while
\* the requests of the batch without error are handed to their handlers.
C19_Disposition ==
    [][/\ Dequeues =>
              /\ \A i \in 1..Len(NewBatch) :
                     /\ NewBatch[i].err = Disposition(i)
                     /\ NewBatch[i].st = IF Disposition(i) = NoErr THEN "wait" ELSE "bogus"
              /\ used' = SeenBefore(Len(NewBatch) + 1)
       /\ BogusStaysBogus
       /\ \A b \in 1..Len(bat) : \A i \in 1..Len(bat[b].tasks) :
              bat'[b].tasks[i].st = "run" =>
                  /\ bat[b].tasks[i].st \in {"wait", "run"}
                  /\ bat'[b].tasks[i].err = NoErr]_vars

\* C19 witness: in a batch of two requests the first, with an accepted version
\* marker and the ID 1, was rejected for its unknown method and left its ID in
\* the live-ID set, and the handler of the second has been invoked and has
\* returned.
C19_Witness ==
    \E b \in 1..Len(bat) :
        /\ Len(bat[b].tasks) = 2
        /\ bat[b].tasks[1].err = "nomethod" /\ bat[b].tasks[1].st = "bogus"
        /\ bat[b].tasks[1].req.id = "1" /\ "1" \in used
        /\ bat[b].tasks[2].st = "done"

\* The names of the framing catalog.
CatalogNames ==
    {NameRaw, NameLine, NameNul, NameDecimal, NameVarint, NameLSP, NameChunked}

\* C16 as claimed: Framing returns a framing for each catalog name (raw, line,
\* nul, decimal, varint, lsp, chunked) and for every name that starts with
\* "header:", the remainder being the content type, and nil for every other
\* name.
C16_Original ==
    fcli # "flags" =>
        /\ fres # NilFraming <=>
               (fname \in CatalogNames \/ HasPrefix(fname, HeaderPrefix))
        /\ HasPrefix(fname, HeaderPrefix) =>
               fres = [kind |-> "Header", t |-> SubSeq(fname, Len(HeaderPrefix) + 1, Len(fname))]

\* The requests of a sequence of frames, in the order they were transmitted.
RECURSIVE Flatten(_)
Flatten(frames) ==
    IF frames = <<>> THEN <<>> ELSE Head(frames) \o Flatten(Tail(frames))

\* The specs of the command line that are calls, as positions.
CallSpecs(specs) == {k \in 1..Len(specs) : ~specs[k].Notify}

\* C18 as claimed: when jcall has issued its calls, every <method> <params>
\* pair has been transmitted exactly once, in argument order: in one frame
\* holding them all under -batch, and in one frame each without it; and the
\* responses handed to printResults are one per call, each answering a request
\* of that transmission.
C18_Original ==
    jpc = "done" =>
        LET specs == newSpecs(jargs, jnotify)
        IN  /\ Flatten(jwire) = specs
            /\ IF jbatch THEN Len(jwire) = 1 ELSE Len(jwire) = Len(specs)
            /\ Len(jrsps) = Cardinality(CallSpecs(specs))
            /\ \A k \in 1..Len(jrsps) :
                   /\ jrsps[k].frame \in 1..Len(jwire)
                   /\ jrsps[k].pos \in 1..Len(jwire[jrsps[k].frame])

\* C17: on an LSP channel, after the messages m1..mn (any bytes, the empty
\* message included) were sent in order, the k-th Recv returns exactly the
\* k-th message and no error, and after n Recv calls no byte is left unread.
C17_LSPRoundTrip ==
    lpc = "recv" =>
        /\ \A k \in 1..Len(lrcvd) : lrcvd[k] = [data |-> lsend[k], err |-> NoErr]
        /\ Len(lrcvd) = Len(lsend) => lwire = <<>>

\* C17 witness: the empty message and then a message that reads like two
\* frames were sent, and both have been received.
C17_Witness ==
    /\ lpc = "recv" /\ lsend = <<<<>>, LongMsg>>
    /\ Len(lrcvd) = 2 /\ lrcvd[1].data = <<>> /\ lrcvd[2].data = LongMsg

\* The server has terminated: both workers are gone and Wait has returned.
Terminated == rdr.pc = "exited" /\ sched = "exited" /\ waitRes # "pending"

\* C11 as claimed: once a started server is stopped, by Stop or by the reader
\* at a fatal error or EOF, the reader and the scheduler exit and Wait returns,
\* whatever the handlers do.
C11_Original == (started /\ closer = "nil") ~> Terminated

\* The n-th batch the reader queued is in the queue or has been dequeued.
Arrived(n) == Len(bat) + Len(inq) >= n

\* The n-th batch has been dequeued, every handler dispatched for it has run
\* to completion, and the reply owed for it has been written.
Served(n) ==
    /\ Len(bat) >= n /\ bat[n].pc = "done"
    /\ \A i \in 1..Len(bat[n].tasks) : bat[n].tasks[i].st \in {"bogus", "done"}
    /\ responses(bat[n].tasks) # <<>> => Sends(n) # {}

\* The premise fails: the server is stopped, or a handler invocation did not
\* return but took the process down.
NotServing == (started /\ closer = "nil") \/ crashed

\* C20: while the server is not stopped and handler invocations return, the
\* scheduler dequeues the batches in the order the reader queued them, and
\* every batch queued is eventually dequeued, has all its handlers run to
\* completion (each gets its permit), and has its reply written.
C20_Progress ==
    /\ [][Dequeues =>
              /\ inq # <<>> /\ inq' = Tail(inq)
              /\ [i \in 1..Len(NewBatch) |-> NewBatch[i].req] = Head(inq)]_vars
    /\ \A n \in 1..MaxLiveFrames : Arrived(n) ~> (Served(n) \/ NotServing)

\* C20 witness: with one permit, on a server still running, the first batch
\* had two handlers, of which one had to wait for the permit, the second batch
\* arrived behind it, and both have been served, the second with a reply.
C20_Witness ==
    /\ closer = "conn" /\ ~crashed /\ semCap = 1
    /\ Len(bat) = 2 /\ Served(1) /\ Served(2)
    /\ Len(bat[1].tasks) = 2
    /\ \A i \in 1..2 : bat[1].tasks[i].st = "done"
    /\ Sends(2) # {}

\* The requests of the batches dequeued so far, in dequeue order.
Dispatched(bs) == [b \in 1..Len(bs) |-> [i \in 1..Len(bs[b].tasks) |-> bs[b].tasks[i].req]]

\* C21: once the server is stopped, by Stop or by the reader at a fatal error
\* or EOF, it stays stopped and the scheduler dequeues nothing: the batches
\* dispatched are those dispatched before the stop, the stopping step itself
\* dequeues none, and every Write of responses is for one of them; a batch
\* left in the queue gets no handler invoked and no response.
C21_NoDispatchAfterStop ==
    [][/\ (started /\ closer = "nil") =>
              /\ closer' = "nil"
              /\ Dispatched(bat') = Dispatched(bat)
              /\ \A k \in 1..Len(out') :
                     out'[k].src = "batch" => out'[k].b \in 1..Len(bat)
       /\ (closer = "conn" /\ closer' = "nil") => Dispatched(bat') = Dispatched(bat)]_vars

\* C21 witness: Stop took effect while a batch was in the queue; the scheduler
\* has exited, the batch is still in the queue, no batch was ever dispatched
\* and nothing was written.
C21_Witness ==
    /\ cause = "Stop" /\ sched = "exited"
    /\ inq # <<>> /\ bat = <<>> /\ out = <<>>

====
